---- MODULE Spec2Model ----
(***************************************************************************)
(* Model of buddy.h: a virtual buddy allocator over the span               *)
(* [0, total_size).  The heap maps the address of every live BuddyNode to  *)
(* its fields.  The root lives inside the BuddyBuffer at address ROOT; a   *)
(* node created by buf_node_new gets the address given by its position in  *)
(* the tree (2*parent for a left child, 2*parent+1 for a right child),     *)
(* which is unused whenever the code calls malloc for that position.       *)
(***************************************************************************)
EXTENDS Integers, Sequences, FiniteSets, TLC

VARIABLES heap, handles, out, hist, before, log, visited, trail, nullDeref, fault, destroyed,
          total_size

vars == <<heap, handles, out, hist, before, log, visited, trail, nullDeref, fault, destroyed,
          total_size>>

\* ---------------------------------------------------------------- bounds
\* Largest span explored over call sequences of any length.
MaxTotal == 8
\* Largest span explored over fully recorded call sequences.
MaxWalkTotal == 4
\* Longest fully recorded call sequence.
MaxOps == 5

\* Spans and request sizes of the header's usage example (1024 with 30) and
\* of the documented walks (1024 with 200, 256; 64 with 10, 16).
ScenarioTotals == {64, 1024}

ScenarioSizes(total) == IF total = 64 THEN {10, 16} ELSE {30, 200, 256}

Totals == 1..MaxTotal

WalkTotals == (1..MaxWalkTotal) \cup ScenarioTotals

Requests(total) ==
    IF total \in ScenarioTotals
    THEN ScenarioSizes(total) \cup {total, total + 1}
    ELSE 1..(total + 1)

\* ---------------------------------------------------------------- types
NULL == 0
ROOT == 1

NODE_TYPE_FREE == "FREE"
NODE_TYPE_SPLIT == "SPLIT"
NODE_TYPE_OCCUPIED == "OCCUPIED"

\* The caller's BuddyAllocation before any successful buddy_buf_alloc wrote it.
NoAlloc == [offset |-> 0, size |-> 0, node |-> NULL]

BuddyAllocation(offset, size, node) == [offset |-> offset, size |-> size, node |-> node]

BuddyNode(type, offset, size, left, right, parent) ==
    [type |-> type, offset |-> offset, size |-> size,
     left |-> left, right |-> right, parent |-> parent]

\* malloc for the child of parent on the given side.
NodeAddr(parent, left) == 2 * parent + (IF left THEN 0 ELSE 1)

\* The live nodes that still point at node.
Referrers(h, node) ==
    {m \in DOMAIN h : h[m].left = node \/ h[m].right = node \/ h[m].parent = node}

\* free(node): the node's storage is gone; the log keeps the address and the
\* live nodes left pointing at it.
Release(st, node) ==
    LET h1 == [n \in (DOMAIN st.heap) \ {node} |-> st.heap[n]]
    IN  [st EXCEPT !.heap = h1,
                   !.log = Append(st.log, [node |-> node, refs |-> Referrers(h1, node)])]

\* ---------------------------------------------------------------- buddy_buf_new
buddy_buf_new(size) ==
    ROOT :> BuddyNode(NODE_TYPE_FREE, 0, size, NULL, NULL, NULL)

\* ---------------------------------------------------------------- destroy_buf_node
\* st carries the heap and the log of releases, in release order.
RECURSIVE destroy_buf_node(_, _)

unlink_and_free_always(st, node) ==
    IF st.heap[node].parent # NULL
    THEN LET p  == st.heap[node].parent
             s1 == IF st.heap[p].left = node
                   THEN [st EXCEPT !.heap[p].left = NULL]
                   ELSE [st EXCEPT !.heap[p].right = NULL]
         IN  Release(s1, node)
    ELSE Release(st, node)

\* Lines 98-105: a node with a parent is unlinked from it and freed.
unlink_and_free(st, node) ==
    IF st.heap[node].parent # NULL
    THEN LET p  == st.heap[node].parent
             s1 == IF st.heap[p].left = node
                   THEN [st EXCEPT !.heap[p].left = NULL]
                   ELSE [st EXCEPT !.heap[p].right = NULL]
         IN  Release(s1, node)
    ELSE st

destroy_skip_right(st, node) ==
    LET s1 == IF st.heap[node].left # NULL
              THEN destroy_buf_node(st, st.heap[node].left) ELSE st
    IN  unlink_and_free(s1, node)

destroy_buf_node(st, node) ==
    LET s1 == IF st.heap[node].left # NULL
              THEN destroy_buf_node(st, st.heap[node].left) ELSE st
        s2 == IF s1.heap[node].right # NULL
              THEN destroy_buf_node(s1, s1.heap[node].right) ELSE s1
    IN  unlink_and_free(s2, node)

\* buddy_buf_destroy: the subtree of the root, then the buffer holding the root.
buddy_buf_destroy(h) ==
    Release(destroy_buf_node([heap |-> h, log |-> <<>>], ROOT), ROOT)

\* ---------------------------------------------------------------- buf_node_new
buf_node_new_same_offset(h, parent, left) ==
    BuddyNode(NODE_TYPE_FREE, h[parent].offset, h[parent].size \div 2, NULL, NULL, parent)

buf_node_new_swapped(h, parent, left) ==
    BuddyNode(NODE_TYPE_FREE,
              h[parent].offset + (IF left THEN h[parent].size \div 2 ELSE 0),
              h[parent].size \div 2,
              NULL, NULL, parent)

buf_node_new(h, parent, left) ==
    BuddyNode(NODE_TYPE_FREE,
              h[parent].offset + (IF left THEN 0 ELSE h[parent].size \div 2),
              h[parent].size \div 2,
              NULL, NULL, parent)

\* ---------------------------------------------------------------- alloc_buf_node
\* Line 127: a free node is split when its half still holds the request.
half_fits_strict(node_size, size) == node_size \div 2 > size

half_fits_no_halving(node_size, size) == node_size >= size

half_fits(node_size, size) == node_size \div 2 >= size

\* Line 134: the node itself holds the request.
fits_always(node_size, size) == TRUE

fits(node_size, size) == node_size >= size

half_too_small_never(node_size, size) == FALSE

\* Line 149: no descendant of a split node can hold the request.
half_too_small(node_size, size) == node_size \div 2 < size

\* Result: the return value, the heap afterwards, the caller's *alloc and the
\* trail of the nodes the calls examined, in call order.
RECURSIVE alloc_buf_node(_, _, _, _)

\* The result r of the calls made below node, after the ones that gave pre.
Below(node, pre, r) == [r EXCEPT !.trail = <<node>> \o pre \o @]

alloc_buf_node(h, node, size, alloc) ==
    CASE h[node].type = NODE_TYPE_FREE ->
            IF half_fits(h[node].size, size)
            THEN LET new_node == NodeAddr(node, TRUE)
                     h1 == [h EXCEPT ![node].type = NODE_TYPE_SPLIT, ![node].left = new_node]
                           @@ (new_node :> buf_node_new(h, node, TRUE))
                 IN  Below(node, <<>>, alloc_buf_node(h1, new_node, size, alloc))
            ELSE IF fits(h[node].size, size)
            THEN [ok |-> TRUE,
                  heap |-> [h EXCEPT ![node].type = NODE_TYPE_OCCUPIED],
                  alloc |-> BuddyAllocation(h[node].offset, h[node].size, node),
                  trail |-> <<node>>]
            ELSE [ok |-> FALSE, heap |-> h, alloc |-> alloc, trail |-> <<node>>]
      [] h[node].type = NODE_TYPE_SPLIT ->
            IF half_too_small(h[node].size, size)
            THEN [ok |-> FALSE, heap |-> h, alloc |-> alloc, trail |-> <<node>>]
            ELSE IF h[node].left = NULL
            THEN LET new_node == NodeAddr(node, TRUE)
                     h1 == [h EXCEPT ![node].left = new_node]
                           @@ (new_node :> buf_node_new(h, node, TRUE))
                 IN  Below(node, <<>>, alloc_buf_node(h1, new_node, size, alloc))
            ELSE LET l == alloc_buf_node(h, h[node].left, size, alloc)
                 IN  IF l.ok THEN Below(node, <<>>, l)
                     ELSE IF l.heap[node].right = NULL
                     THEN LET new_node == NodeAddr(node, FALSE)
                              h1 == [l.heap EXCEPT ![node].right = new_node]
                                    @@ (new_node :> buf_node_new(l.heap, node, FALSE))
                          IN  Below(node, l.trail,
                                    alloc_buf_node(h1, new_node, size, l.alloc))
                     ELSE LET r == alloc_buf_node(l.heap, l.heap[node].right, size, l.alloc)
                          IN  IF r.ok THEN Below(node, l.trail, r)
                              ELSE Below(node, l.trail,
                                         [ok |-> FALSE, heap |-> r.heap, alloc |-> r.alloc,
                                          trail |-> r.trail])
      [] h[node].type = NODE_TYPE_OCCUPIED ->
            [ok |-> FALSE, heap |-> h, alloc |-> alloc, trail |-> <<node>>]

buddy_buf_alloc(h, size, alloc) == alloc_buf_node(h, ROOT, size, alloc)

\* ---------------------------------------------------------------- node_update
ChildType(h, c) == IF c = NULL THEN "NONE" ELSE h[c].type

can_coalesce_either(h, node) ==
    \/ h[node].left = NULL \/ h[h[node].left].type = NODE_TYPE_FREE
    \/ h[node].right = NULL \/ h[h[node].right].type = NODE_TYPE_FREE

can_coalesce_never(h, node) == FALSE

can_coalesce(h, node) ==
    /\ (h[node].left = NULL \/ h[h[node].left].type = NODE_TYPE_FREE)
    /\ (h[node].right = NULL \/ h[h[node].right].type = NODE_TYPE_FREE)

\* One entry of the fix-up's trail: the node it examined, the types it read
\* there and whether it went on to destroy the node.
Visit(h, node) ==
    [node |-> node, type |-> h[node].type,
     left |-> ChildType(h, h[node].left), right |-> ChildType(h, h[node].right),
     destroys |-> \/ h[node].type = NODE_TYPE_FREE /\ h[node].parent # NULL
                  \/ h[node].type = NODE_TYPE_SPLIT /\ can_coalesce(h, node)]

\* st carries heap, log, the trail of examined nodes and whether the fix-up
\* read node->type through a NULL node (line 184 reached with node = NULL).
RECURSIVE node_update(_, _)

node_update(st, node) ==
    IF node = NULL
    THEN [st EXCEPT !.nullDeref = TRUE]
    ELSE LET h  == st.heap
             s0 == [st EXCEPT !.visited = Append(st.visited, Visit(h, node))]
         IN  CASE h[node].type = NODE_TYPE_FREE ->
                     IF h[node].parent # NULL
                     THEN LET parent == h[node].parent
                              d == IF h[parent].left = node
                                   THEN destroy_buf_node(s0, h[parent].left)
                                   ELSE destroy_buf_node(s0, h[parent].right)
                          IN  node_update(d, parent)
                     ELSE s0
               [] h[node].type = NODE_TYPE_SPLIT ->
                     IF can_coalesce(h, node)
                     THEN LET parent == h[node].parent
                              d == destroy_buf_node(s0, node)
                          IN  node_update(d, parent)
                     ELSE s0
               [] h[node].type = NODE_TYPE_OCCUPIED -> s0

buddy_buf_free(h, alloc) ==
    node_update([heap |-> [h EXCEPT ![alloc.node].type = NODE_TYPE_FREE],
                 log |-> <<>>, visited |-> <<>>, nullDeref |-> FALSE],
                alloc.node)

\* ---------------------------------------------------------------- state machine
Call(op, size, ok, alloc) == [op |-> op, size |-> size, ok |-> ok, alloc |-> alloc]

\* The calls made so far: all of them on a walk, else the last one only.
Record(walk, call) == IF walk THEN Append(hist, call) ELSE <<call>>

Fresh(totals) ==
    /\ total_size \in totals
    /\ heap = buddy_buf_new(total_size)
    /\ handles = {}
    /\ out = NoAlloc
    /\ hist = <<>>
    /\ before = [heap |-> heap, handles |-> handles, out |-> out]
    /\ log = <<>>
    /\ visited = <<>>
    /\ trail = <<>>
    /\ nullDeref = FALSE
    /\ fault = FALSE
    /\ destroyed = FALSE

Init == Fresh(Totals)

InitWalk == Fresh(WalkTotals)

Live(walk) == ~fault /\ ~destroyed /\ (walk => Len(hist) < MaxOps)

\* buddy_buf_alloc(buf, size, &out) with size > 0.
Allocate(size, walk) ==
    /\ Live(walk)
    /\ \E r \in {buddy_buf_alloc(heap, size, out)} :
           /\ heap' = r.heap
           /\ out' = r.alloc
           /\ handles' = IF r.ok THEN handles \cup {r.alloc} ELSE handles
           /\ hist' = Record(walk, Call("alloc", size, r.ok, r.alloc))
           /\ trail' = r.trail
    /\ before' = [heap |-> heap, handles |-> handles, out |-> out]
    /\ log' = <<>>
    /\ visited' = <<>>
    /\ nullDeref' = FALSE
    /\ UNCHANGED <<fault, destroyed, total_size>>

\* buddy_buf_free(a) for an outstanding allocation a.  Reading node->type
\* through NULL is undefined: the call either faults or returns.
Free(a, walk) ==
    /\ Live(walk)
    /\ a \in handles
    /\ \E r \in {buddy_buf_free(heap, a)} :
           /\ heap' = r.heap
           /\ log' = r.log
           /\ visited' = r.visited
           /\ nullDeref' = r.nullDeref
           /\ \E faults \in BOOLEAN : fault' = (r.nullDeref /\ faults)
    /\ handles' = handles \ {a}
    /\ hist' = Record(walk, Call("free", a.size, TRUE, a))
    /\ trail' = <<>>
    /\ before' = [heap |-> heap, handles |-> handles, out |-> out]
    /\ UNCHANGED <<out, destroyed, total_size>>

\* buddy_buf_destroy(buf).
Destroy(walk) ==
    /\ Live(walk)
    /\ \E d \in {buddy_buf_destroy(heap)} :
           /\ heap' = d.heap
           /\ log' = d.log
    /\ destroyed' = TRUE
    /\ hist' = Record(walk, Call("destroy", 0, TRUE, NoAlloc))
    /\ trail' = <<>>
    /\ before' = [heap |-> heap, handles |-> handles, out |-> out]
    /\ visited' = <<>>
    /\ nullDeref' = FALSE
    /\ UNCHANGED <<handles, out, fault, total_size>>

Next ==
    \/ \E size \in Requests(total_size) : Allocate(size, FALSE)
    \/ \E a \in handles : Free(a, FALSE)
    \/ Destroy(FALSE)

NextWalk ==
    \/ \E size \in Requests(total_size) : Allocate(size, TRUE)
    \/ \E a \in handles : Free(a, TRUE)
    \/ Destroy(TRUE)

\* Call sequences of any length on spans up to MaxTotal.
Spec == Init /\ [][Next]_vars

\* Every call sequence of at most MaxOps calls from a fresh allocator.
SpecWalk == InitWalk /\ [][NextWalk]_vars

\* ---------------------------------------------------------------- vocabulary of the properties
Last == hist[Len(hist)]

LastIs(op) == hist # <<>> /\ Last.op = op

AllocOk(c) == c.op = "alloc" /\ c.ok

Overlap(a, b) == a.offset < b.offset + b.size /\ b.offset < a.offset + a.size

\* The sizes obtained from n by repeated integer halving, with their depth.
RECURSIVE ClassesFrom(_, _)
ClassesFrom(n, d) ==
    IF n = 0 THEN {} ELSE {[size |-> n, depth |-> d]} \cup ClassesFrom(n \div 2, d + 1)

Classes == ClassesFrom(total_size, 0)

Halvings == {c.size : c \in Classes}

\* The size class of a request: the halving g with g >= size and g/2 < size.
ClassOf(size) == {c \in Classes : c.size >= size /\ c.size \div 2 < size}

\* The partitions of the span at depth d, by position in the tree.
RECURSIVE PartAt(_)
PartAt(d) ==
    IF d = 0 THEN {[offset |-> 0, size |-> total_size]}
    ELSE UNION {{[offset |-> p.offset, size |-> p.size \div 2],
                 [offset |-> p.offset + p.size \div 2, size |-> p.size \div 2]} :
                p \in PartAt(d - 1)}

\* The partitions at depth d that overlap none of the allocations held.
FreePartAt(d, held) == {p \in PartAt(d) : \A a \in held : ~Overlap(p, a)}

\* C1: on a fresh allocator, Allocate(size), Free(handle), Allocate(total_size)
\* runs through and the last Allocate returns offset 0 and size total_size.
C1_RoundTrip ==
    /\ (Len(hist) = 2 /\ AllocOk(hist[1]) /\ hist[2].op = "free") => ~fault
    /\ (Len(hist) = 3 /\ AllocOk(hist[1]) /\ hist[2].op = "free"
           /\ hist[3].op = "alloc" /\ hist[3].size = total_size)
           => /\ hist[3].ok
              /\ hist[3].alloc.offset = 0
              /\ hist[3].alloc.size = total_size

\* C2: Free of a valid handle runs to completion: its fix-up never reads a
\* node beyond the root and does not fault.
C2_FreeCompletes == LastIs("free") => (~nullDeref /\ ~fault)

\* C3: without any Free, the ranges returned by the successful Allocate calls
\* are pairwise non-overlapping.
C3_Disjoint ==
    (\A k \in 1..Len(hist) : hist[k].op = "alloc")
        => \A i, j \in 1..Len(hist) :
              (i < j /\ hist[i].ok /\ hist[j].ok) => ~Overlap(hist[i].alloc, hist[j].alloc)

C3_Witness ==
    /\ \A k \in 1..Len(hist) : hist[k].op = "alloc"
    /\ Cardinality({k \in 1..Len(hist) : hist[k].ok}) >= 3
    /\ \E i, j \in 1..Len(hist) :
          /\ i < j /\ hist[i].ok /\ hist[j].ok
          /\ hist[i].alloc.size # hist[j].alloc.size
          /\ hist[i].alloc.offset > hist[j].alloc.offset

\* C4: the first Allocate(size) on a fresh allocator, 1 <= size <= total_size,
\* succeeds, grants the smallest halving of total_size that is >= size, at an
\* offset that is a multiple of the granted size.
C4_FitCorrectness ==
    (LastIs("alloc") /\ before.heap = buddy_buf_new(total_size) /\ Last.size <= total_size)
        => /\ Last.ok
           /\ out = Last.alloc
           /\ out.size \in Halvings
           /\ out.size >= Last.size
           /\ \A v \in Halvings : v >= Last.size => out.size <= v
           /\ out.offset % out.size = 0

C4_Witness ==
    /\ LastIs("alloc") /\ before.heap = buddy_buf_new(total_size)
    /\ Last.ok /\ Last.size < out.size /\ out.size < total_size
    /\ total_size % 2 = 1

\* C5: Allocate(size) fails only when no partition of the request's size
\* class is free of outstanding allocations.
C5_FailureMeansNoFit ==
    (LastIs("alloc") /\ ~Last.ok)
        => \A c \in ClassOf(Last.size) : FreePartAt(c.depth, before.handles) = {}

\* C6: with two allocations of one size class outstanding on a fresh allocator
\* and the first freed, an Allocate of that class returns the first one's
\* offset, and the second one's node stays Occupied with its offset and size.
C6_Setup ==
    /\ Len(hist) >= 3
    /\ AllocOk(hist[1]) /\ AllocOk(hist[2])
    /\ hist[1].alloc.size = hist[2].alloc.size
    /\ hist[3].op = "free" /\ hist[3].alloc = hist[1].alloc

C6_SecondUntouched ==
    /\ hist[2].alloc.node \in DOMAIN heap
    /\ heap[hist[2].alloc.node].type = NODE_TYPE_OCCUPIED
    /\ heap[hist[2].alloc.node].offset = hist[2].alloc.offset
    /\ heap[hist[2].alloc.node].size = hist[2].alloc.size

C6_ReuseFreedBuddy ==
    /\ (C6_Setup /\ Len(hist) = 3) => (~nullDeref /\ C6_SecondUntouched)
    /\ (C6_Setup /\ Len(hist) = 4 /\ hist[4].op = "alloc"
           /\ hist[4].size <= hist[1].alloc.size
           /\ hist[1].alloc.size \div 2 < hist[4].size)
           => /\ hist[4].ok
              /\ hist[4].alloc.offset = hist[1].alloc.offset
              /\ hist[4].alloc.size = hist[1].alloc.size
              /\ C6_SecondUntouched

C6_Witness ==
    /\ total_size = 1024 /\ Len(hist) = 4 /\ C6_Setup
    /\ hist[1].size = 200 /\ hist[2].size = 200
    /\ hist[4].op = "alloc" /\ hist[4].size = 256
    /\ hist[4].alloc.offset = 0 /\ hist[4].alloc.size = 256
    /\ hist[2].alloc.offset = 256 /\ hist[2].alloc.size = 256

\* C7: the fix-up of Free never destroys a Split node it finds with an
\* Occupied or Split child; every Split node with another Occupied node below
\* it stays Split, and every other Occupied node keeps its fields.
RECURSIVE OccupiedBelow(_, _)
OccupiedBelow(h, n) ==
    IF n = NULL THEN {}
    ELSE (IF h[n].type = NODE_TYPE_OCCUPIED THEN {n} ELSE {})
         \cup OccupiedBelow(h, h[n].left) \cup OccupiedBelow(h, h[n].right)

HeldChild(t) == t \in {NODE_TYPE_OCCUPIED, NODE_TYPE_SPLIT}

C7_NoFalseCoalescing ==
    LastIs("free")
        => /\ \A i \in 1..Len(visited) :
                 (visited[i].type = NODE_TYPE_SPLIT
                    /\ (HeldChild(visited[i].left) \/ HeldChild(visited[i].right)))
                 => /\ ~visited[i].destroys
                    /\ visited[i].node \in DOMAIN heap
                    /\ heap[visited[i].node].type = NODE_TYPE_SPLIT
           /\ \A n \in DOMAIN before.heap :
                 /\ (before.heap[n].type = NODE_TYPE_OCCUPIED /\ n # Last.alloc.node)
                        => (n \in DOMAIN heap /\ heap[n] = before.heap[n])
                 /\ (before.heap[n].type = NODE_TYPE_SPLIT
                        /\ OccupiedBelow(before.heap, n) \ {Last.alloc.node} # {})
                        => (n \in DOMAIN heap /\ heap[n].type = NODE_TYPE_SPLIT)

C7_Witness ==
    /\ LastIs("free")
    /\ \E i, j \in 1..Len(visited) :
          /\ j < i
          /\ visited[j].type = NODE_TYPE_SPLIT /\ visited[j].destroys
          /\ visited[i].type = NODE_TYPE_SPLIT /\ ~visited[i].destroys
          /\ visited[i].node # ROOT
          /\ HeldChild(visited[i].left) \/ HeldChild(visited[i].right)

\* C8: Destroy releases every materialized node exactly once, children before
\* their parent and the root last, leaves no node behind and never leaves a
\* live node pointing at a released one.
C8_Teardown ==
    destroyed
        => /\ DOMAIN heap = {}
           /\ Len(log) = Cardinality(DOMAIN before.heap)
           /\ {log[i].node : i \in 1..Len(log)} = DOMAIN before.heap
           /\ log[Len(log)].node = ROOT
           /\ \A i \in 1..Len(log) :
                 /\ log[i].refs = {}
                 /\ before.heap[log[i].node].parent # NULL
                        => \E j \in (i + 1)..Len(log) :
                              log[j].node = before.heap[log[i].node].parent

C8_Witness ==
    /\ destroyed
    /\ Cardinality({n \in DOMAIN before.heap : before.heap[n].type = NODE_TYPE_OCCUPIED}) >= 3
    /\ Cardinality({n \in DOMAIN before.heap : before.heap[n].type = NODE_TYPE_SPLIT}) >= 3
    /\ \E n \in DOMAIN before.heap :
          /\ before.heap[n].type = NODE_TYPE_SPLIT
          /\ before.heap[n].left = NULL /\ before.heap[n].right # NULL

\* C9: Allocate(size) with size > total_size fails in every state.
C9_Exhaustion == (LastIs("alloc") /\ Last.size > total_size) => ~Last.ok

C9_Witness ==
    /\ LastIs("alloc") /\ Last.size = total_size + 1 /\ ~Last.ok
    /\ before.handles # {}
    /\ \E size \in 1..total_size : buddy_buf_alloc(heap, size, out).ok

\* C10: a successful Allocate returns the lowest offset among the partitions
\* of the granted size class that were free before the call.
C10_LeftBiased ==
    (LastIs("alloc") /\ Last.ok)
        => \E c \in Classes :
              /\ c.size = out.size
              /\ [offset |-> out.offset, size |-> out.size]
                     \in FreePartAt(c.depth, before.handles)
              /\ \A p \in FreePartAt(c.depth, before.handles) : out.offset <= p.offset

C10_Witness ==
    /\ LastIs("alloc") /\ Last.ok
    /\ out.offset > 0
    /\ \E c \in Classes :
          /\ c.size = out.size
          /\ Cardinality(FreePartAt(c.depth, before.handles)) >= 2
    /\ \E a \in before.handles : a.offset > out.offset

\* C11: on total_size = 64, Allocate(10) returns (0, 16), a second Allocate(10)
\* returns (16, 16), and after Free of the first Allocate(16) returns offset 0
\* and Allocate(64) fails; in general Allocate(total_size) fails whenever an
\* allocation is outstanding.
C11_Walk(n) ==
    /\ total_size = 64 /\ Len(hist) >= n
    /\ \A k \in 1..n :
          /\ hist[k].op = (IF k = 3 THEN "free" ELSE "alloc")
          /\ k \in {1, 2} => hist[k].size = 10
          /\ k = 3 => hist[k].alloc = hist[1].alloc
          /\ k = 4 => hist[k].size = 16
          /\ k = 5 => hist[k].size = 64

C11_ConcreteWalk ==
    /\ C11_Walk(1) => (hist[1].ok /\ hist[1].alloc.offset = 0 /\ hist[1].alloc.size = 16)
    /\ C11_Walk(2) => (hist[2].ok /\ hist[2].alloc.offset = 16 /\ hist[2].alloc.size = 16)
    /\ (C11_Walk(3) /\ Len(hist) = 3) => ~nullDeref
    /\ C11_Walk(4) => (hist[4].ok /\ hist[4].alloc.offset = 0 /\ hist[4].alloc.size = 16)
    /\ C11_Walk(5) => ~hist[5].ok
    /\ (LastIs("alloc") /\ Last.size = total_size /\ before.handles # {}) => ~Last.ok

C11_Witness == C11_Walk(5) /\ ~hist[5].ok /\ Cardinality(handles) = 2

\* C12: after every Free that returns, no Split node (the root included) has
\* both children absent or Free, and once the last outstanding allocation is
\* freed the root is Free with no children.
Eligible(h, n) ==
    /\ h[n].type = NODE_TYPE_SPLIT
    /\ ChildType(h, h[n].left) \in {"NONE", NODE_TYPE_FREE}
    /\ ChildType(h, h[n].right) \in {"NONE", NODE_TYPE_FREE}

C12_MaximalCoalescing ==
    (LastIs("free") /\ ~fault)
        => /\ \A n \in DOMAIN heap : ~Eligible(heap, n)
           /\ handles = {} => heap = buddy_buf_new(total_size)

\* C13: after any sequence of Allocate and Free calls every node is Free,
\* Split or Occupied, Occupied and Free nodes have no children, and the root
\* exists.
C13_NodeShape ==
    ~destroyed
        => /\ ROOT \in DOMAIN heap
           /\ \A n \in DOMAIN heap :
                 /\ heap[n].type \in {NODE_TYPE_FREE, NODE_TYPE_SPLIT, NODE_TYPE_OCCUPIED}
                 /\ heap[n].type \in {NODE_TYPE_FREE, NODE_TYPE_OCCUPIED}
                        => (heap[n].left = NULL /\ heap[n].right = NULL)

C13_Witness ==
    /\ LastIs("free") /\ nullDeref /\ ~fault
    /\ before.heap[ROOT].left # NULL /\ before.heap[ROOT].right = NULL
    /\ Cardinality(DOMAIN before.heap) >= 3

\* C14: every node at depth d has size total_size / 2^d; a left child has its
\* parent's offset, a right child its parent's offset plus half its parent's
\* size; so a node's range lies in its parent's and is disjoint from its
\* sibling's.
RECURSIVE Depth(_, _)
Depth(h, n) == IF h[n].parent = NULL THEN 0 ELSE 1 + Depth(h, h[n].parent)

Range(h, n) == [offset |-> h[n].offset, size |-> h[n].size]

C14_Geometry ==
    \A n \in DOMAIN heap :
       /\ \E c \in Classes : c.depth = Depth(heap, n) /\ c.size = heap[n].size
       /\ n = ROOT => (heap[n].offset = 0 /\ heap[n].parent = NULL)
       /\ n # ROOT =>
             LET p == heap[n].parent
             IN  /\ p \in DOMAIN heap
                 /\ (heap[p].left = n) # (heap[p].right = n)
                 /\ heap[p].left = n => heap[n].offset = heap[p].offset
                 /\ heap[p].right = n
                        => heap[n].offset = heap[p].offset + heap[p].size \div 2
                 /\ heap[p].offset <= heap[n].offset
                 /\ heap[n].offset + heap[n].size <= heap[p].offset + heap[p].size
                 /\ (heap[p].left # NULL /\ heap[p].right # NULL)
                        => ~Overlap(Range(heap, heap[p].left), Range(heap, heap[p].right))

C14_Witness ==
    /\ total_size % 2 = 1
    /\ \E n \in DOMAIN heap :
          /\ Depth(heap, n) >= 2
          /\ heap[heap[n].parent].right = n
          /\ heap[heap[n].parent].left # NULL
          /\ heap[n].offset + heap[n].size < total_size

\* C15: Allocate(size), size > 0, returns after examining nodes on at most
\* floor(log2(total_size)) + 1 levels of the tree.
Levels == Cardinality(Classes)

C15_AllocateTerminates ==
    LastIs("alloc")
        => /\ trail # <<>> /\ trail[1] = ROOT
           /\ \A i \in 1..Len(trail) :
                 /\ trail[i] \in DOMAIN heap
                 /\ Depth(heap, trail[i]) + 1 <= Levels
                 /\ 2 ^ Depth(heap, trail[i]) <= total_size

C15_Witness ==
    /\ LastIs("alloc") /\ Levels >= 4
    /\ \E i, j \in 1..Len(trail) :
          /\ i < j
          /\ Depth(heap, trail[i]) + 1 = Levels
          /\ Depth(heap, trail[j]) + 1 = Levels
          /\ heap[trail[i]].parent # heap[trail[j]].parent

\* C16: in every state reached by Allocate and Free calls the outstanding
\* allocations are pairwise disjoint, lie within [0, total_size), and each
\* one's node is Occupied with the allocation's offset and size.
C16_LiveAllocations ==
    ~destroyed
        => /\ \A a \in handles :
                 /\ a.size >= 1 /\ a.offset >= 0 /\ a.offset + a.size <= total_size
                 /\ a.node \in DOMAIN heap
                 /\ heap[a.node].type = NODE_TYPE_OCCUPIED
                 /\ heap[a.node].offset = a.offset
                 /\ heap[a.node].size = a.size
           /\ \A a, b \in handles : a # b => ~Overlap(a, b)

C16_Witness ==
    /\ LastIs("free") /\ ~nullDeref
    /\ Cardinality(handles) >= 3
    /\ \E a, b \in handles :
          /\ a.size # b.size
          /\ a.offset < Last.alloc.offset /\ Last.alloc.offset < b.offset

\* C17: an Allocate that fails leaves the tree as it was and does not write
\* the caller's allocation.
C17_FailedAllocateFrame ==
    (LastIs("alloc") /\ ~Last.ok)
        => /\ heap = before.heap
           /\ out = before.out
           /\ handles = before.handles

C17_Witness ==
    /\ LastIs("alloc") /\ ~Last.ok
    /\ Last.size <= total_size \div 2
    /\ Len(trail) >= 5
    /\ before.out # NoAlloc

\* C18: a successful Allocate and a Free(h) leave every other outstanding
\* allocation's node in the tree, Occupied, with its offset and size; Free(h)
\* removes only h's node and Split ancestors of it with no other Occupied
\* node below them, and the nodes that stay keep their type, offset and size.
RECURSIVE Ancestors(_, _)
Ancestors(h, n) ==
    IF h[n].parent = NULL THEN {} ELSE {h[n].parent} \cup Ancestors(h, h[n].parent)

C18_Acted == (LastIs("alloc") /\ Last.ok) \/ LastIs("free")

C18_OthersUndisturbed ==
    C18_Acted
        => /\ \A a \in before.handles :
                 (LastIs("free") => a # Last.alloc)
                 => /\ a \in handles
                    /\ a.node \in DOMAIN heap
                    /\ heap[a.node].type = NODE_TYPE_OCCUPIED
                    /\ heap[a.node].offset = a.offset
                    /\ heap[a.node].size = a.size
           /\ LastIs("free")
                 => \A n \in DOMAIN before.heap :
                       IF n \in DOMAIN heap
                       THEN /\ heap[n].type = before.heap[n].type \/ n = Last.alloc.node
                            /\ heap[n].offset = before.heap[n].offset
                            /\ heap[n].size = before.heap[n].size
                            /\ heap[n].parent = before.heap[n].parent
                       ELSE \/ n = Last.alloc.node
                            \/ /\ n \in Ancestors(before.heap, Last.alloc.node)
                               /\ before.heap[n].type = NODE_TYPE_SPLIT
                               /\ OccupiedBelow(before.heap, n) = {Last.alloc.node}

C18_Witness ==
    /\ LastIs("free")
    /\ Cardinality(before.handles) >= 3
    /\ Cardinality(DOMAIN before.heap) >= Cardinality(DOMAIN heap) + 2
    /\ \E a \in handles : heap[a.node].parent \in Ancestors(before.heap, Last.alloc.node)

\* C19: when total_size is a power of two, every successful Allocate(size)
\* grants a power of two g with size <= g < 2*size, at an offset that is a
\* multiple of g, with offset + g <= total_size.
RECURSIVE IsPowerOfTwo(_)
IsPowerOfTwo(n) == n = 1 \/ (n > 1 /\ n % 2 = 0 /\ IsPowerOfTwo(n \div 2))

C19_Alignment ==
    (IsPowerOfTwo(total_size) /\ LastIs("alloc") /\ Last.ok)
        => /\ IsPowerOfTwo(out.size)
           /\ Last.size <= out.size /\ out.size < 2 * Last.size
           /\ out.offset % out.size = 0
           /\ out.offset + out.size <= total_size

C19_Witness ==
    /\ IsPowerOfTwo(total_size) /\ LastIs("alloc") /\ Last.ok
    /\ Last.size < out.size
    /\ out.offset > 0 /\ out.offset + out.size = total_size
    /\ Cardinality(before.handles) >= 2

\* C20: between operations every node other than the root is Occupied or a
\* Split node with an Occupied node below it, so the number of nodes is at
\* most the root plus the outstanding allocations times the tree depth.
C20_NoIdleNodes ==
    ~destroyed
        => /\ \A n \in (DOMAIN heap) \ {ROOT} :
                 \/ heap[n].type = NODE_TYPE_OCCUPIED
                 \/ /\ heap[n].type = NODE_TYPE_SPLIT
                    /\ OccupiedBelow(heap, n) # {}
                    /\ heap[n].left # NULL \/ heap[n].right # NULL
           /\ Cardinality(DOMAIN heap) <= 1 + Cardinality(handles) * (Levels - 1)

C20_Witness ==
    /\ LastIs("free") /\ ~nullDeref
    /\ Cardinality(DOMAIN before.heap) >= Cardinality(DOMAIN heap) + 2
    /\ \E n \in (DOMAIN heap) \ {ROOT} :
          /\ heap[n].type = NODE_TYPE_SPLIT
          /\ heap[n].left = NULL /\ heap[n].right # NULL

====
